---- MODULE Spec2Model ----
(***************************************************************************)
(* Agent Runtime Core: src/src/agents/core/base_agent.py (BaseAgent).      *)
(*                                                                         *)
(* One BaseAgent instance, used by a fixed set of callers under asyncio's  *)
(* cooperative scheduling: a coroutine runs uninterrupted from one await   *)
(* that suspends to the next, so every action below is the code between    *)
(* two suspension points.                                                  *)
(*   - a call (process / process_stream) suspends at `async with           *)
(*     self._lock` when the lock is taken, and inside `await               *)
(*     self._process(...)`;                                                *)
(*   - close() suspends inside `await self._on_close()`;                   *)
(*   - health_check() is a plain function and never suspends.              *)
(***************************************************************************)
EXTENDS Integers, Sequences, FiniteSets, TLC

\* ---------------------------------------------------------------- bounds
NumCalls == 2          \* process()/process_stream() calls made on the instance
NumClosers == 2        \* close() calls made on the instance

Calls == 1..NumCalls

\* time.monotonic() - start_time of one call, in latency ticks: none or one
ElapsedTicks == {0, 1}

\* RuntimeState (enum values)
IDLE == "idle"
RUNNING == "running"
ERROR == "error"
CLOSED == "closed"
RuntimeState == {IDLE, RUNNING, ERROR, CLOSED}

\* Exceptions (subclasses of Exception) the wrapped _process may raise.
Exceptions == {"ValueError", "KeyError"}

\* The two RuntimeErrors BaseAgent raises itself.
ClosedError == "RuntimeError: Agent is closed"
AlreadyClosedError == "RuntimeError: Agent already closed"

\* What a ProcessingFailure wrapping `e` would be (the code never builds one).
ProcessingFailure(e) ==
    CASE e = "ValueError" -> "ProcessingFailure(ValueError)"
      [] e = "KeyError" -> "ProcessingFailure(KeyError)"

VARIABLES
    run_time_state,   \* self.run_time_state
    closed,           \* self._closed
    locked,           \* self._lock: asyncio.Lock._locked
    waiters,          \* self._lock: asyncio.Lock._waiters (FIFO of suspended calls)
    metrics,          \* self.metrics: total_calls, total_errors, total_latency
    pc,               \* position of each call
    stream,           \* the stream flag each call passes to _run
    wrapped,          \* what the wrapped _process did for each call
    outcome,          \* what each call gave its caller
    close_calls,      \* close() calls made so far
    in_on_close,      \* close() calls suspended inside the hook _on_close
    on_close_runs,    \* number of times the hook _on_close was entered
    snapshot,         \* the dict the last health_check() returned
    tm_call,          \* the TokenBudget / TokenManager call being made, with its arguments
    tm_result,        \* what that call gave its caller
    active_connections,  \* ConnectionManager.active_connections (its session ids)
    cm_locked,        \* ConnectionManager._lock: asyncio.Lock._locked
    cm_waiters,       \* ConnectionManager._lock: asyncio.Lock._waiters
    cm_task           \* the ConnectionManager call each task makes, and its position

agent == <<run_time_state, closed, locked, waiters, metrics>>
callers == <<pc, stream, wrapped, outcome>>
tok == <<tm_call, tm_result>>
conn == <<active_connections, cm_locked, cm_waiters, cm_task>>
vars == <<run_time_state, closed, locked, waiters, metrics, pc, stream, wrapped,
          outcome, close_calls, in_on_close, on_close_runs, snapshot,
          tm_call, tm_result, active_connections, cm_locked, cm_waiters, cm_task>>

NoSnapshot == [state |-> "none", total_calls |-> 0, total_errors |-> 0,
               total_latency |-> 0]

\* no TokenBudget / TokenManager call is made
NoBudget == [max_tokens |-> 0, reserved_for_response |-> 0, buffer_pct |-> 0]
NoCall == [op |-> "none", text |-> <<>>, max_tokens |-> 0, strategy |-> "end",
           items |-> <<>>, messages |-> <<>>, budget |-> NoBudget]
NoResult == [done |-> FALSE, err |-> "none", val |-> <<>>]

\* BaseAgent.__init__ and AgentMetrics.__init__
\* ConnectionManager: the tasks that call it and the sessions they name
NumTasks == 3          \* ConnectionManager calls made, one by each task
Tasks == 1..NumTasks
Sessions == {"s1", "s2"}

\* a task that has not made its call
NoTask == [op |-> "none", session_id |-> "s1", exclude_sessions |-> {},
           pc |-> "new", todo |-> {}, disconnected |-> <<>>, failed |-> FALSE]

\* ConnectionManager.__init__, and no call made
ConnIdle ==
    /\ active_connections = {}
    /\ cm_locked = FALSE
    /\ cm_waiters = <<>>
    /\ cm_task = [t \in Tasks |-> NoTask]

AgentInit ==
    /\ run_time_state = IDLE
    /\ closed = FALSE
    /\ locked = FALSE
    /\ waiters = <<>>
    /\ metrics = [total_calls |-> 0, total_errors |-> 0, total_latency |-> 0]
    /\ pc = [c \in Calls |-> "new"]
    /\ stream = [c \in Calls |-> FALSE]
    /\ wrapped = [c \in Calls |-> "not_called"]
    /\ outcome = [c \in Calls |-> "none"]
    /\ close_calls = 0
    /\ in_on_close = 0
    /\ on_close_runs = 0
    /\ snapshot = NoSnapshot

\* the agent alone
Init ==
    /\ AgentInit
    /\ tm_call = NoCall
    /\ tm_result = NoResult
    /\ ConnIdle

\* ------------------------------------------------------------ the lock
\* asyncio.Lock.acquire returns at once only when the lock is free and nobody
\* is queued for it; otherwise the caller queues and suspends.
LockAvailable_NoCheck == TRUE

LockAvailable == ~locked /\ waiters = <<>>

\* `async with` leaves the lock released, however the block ended
\* (raised = the block ended with an exception).
LockAfterExit_LeakOnError(raised) == raised

LockAfterExit_KeptOnReturn(raised) == ~raised

LockAfterExit(raised) == FALSE

\* the check _run makes before it asks for the lock
ClosedCheck_Missing == FALSE

ClosedCheck == closed

\* self.metrics.total_calls += 1
CountCall_Missing(m) == m

CountCall(m) == [m EXCEPT !.total_calls = @ + 1]

\* self.metrics.total_errors += 1
CountError(m) == [m EXCEPT !.total_errors = @ + 1]

\* _enter_running: refuses a CLOSED instance, else the state is RUNNING.
EnterRunningRejects(s) == s = CLOSED

\* the except clause of _run: the state it sets
ExceptState == ERROR

\* the finally clause of _run: the state it leaves, given the state it finds
FinallyState_NoReset(s) == s

FinallyState_KeepsError(s) == IF s \notin {CLOSED, ERROR} THEN IDLE ELSE s

FinallyState(s) == IF s # CLOSED THEN IDLE ELSE s

\* the finally clause of _run: total_latency += elapsed
AddLatency(m, elapsed) == [m EXCEPT !.total_latency = @ + elapsed]

\* `async with self._lock` entered by call c at state s: _enter_running, then
\* total_calls += 1 and the call of the wrapped _process (which suspends).
\* A rejected call leaves the `async with` at once and the lock is free again.
EnterLocked(c) ==
    IF EnterRunningRejects(run_time_state)
    THEN /\ locked' = LockAfterExit(TRUE)
         /\ pc' = [pc EXCEPT ![c] = "done"]
         /\ outcome' = [outcome EXCEPT ![c] = AlreadyClosedError]
         /\ UNCHANGED <<run_time_state, metrics, wrapped>>
    ELSE /\ locked' = TRUE
         /\ run_time_state' = RUNNING
         /\ metrics' = CountCall(metrics)
         /\ wrapped' = [wrapped EXCEPT ![c] = "running"]
         /\ pc' = [pc EXCEPT ![c] = "in_process"]
         /\ UNCHANGED outcome

\* ----------------------------------------------------------- the calls
\* process(x) (s = FALSE) or the first step of process_stream(x) (s = TRUE):
\* _run up to its first suspension.
Start(c, s) ==
    /\ pc[c] = "new"
    /\ stream' = [stream EXCEPT ![c] = s]
    /\ IF ClosedCheck
       THEN /\ pc' = [pc EXCEPT ![c] = "done"]
            /\ outcome' = [outcome EXCEPT ![c] = ClosedError]
            /\ UNCHANGED <<run_time_state, locked, waiters, metrics, wrapped>>
       ELSE IF LockAvailable
            THEN EnterLocked(c) /\ UNCHANGED waiters
            ELSE /\ waiters' = Append(waiters, c)
                 /\ pc' = [pc EXCEPT ![c] = "waiting"]
                 /\ UNCHANGED <<run_time_state, locked, metrics, wrapped, outcome>>
    /\ UNCHANGED <<closed, close_calls, in_on_close, on_close_runs, snapshot, tok, conn>>

\* A suspended call is woken by the release of the lock (first in, first out)
\* and goes on inside `async with self._lock`.
Resume(c) ==
    /\ pc[c] = "waiting"
    /\ ~locked
    /\ waiters # <<>>
    /\ Head(waiters) = c
    /\ waiters' = Tail(waiters)
    /\ EnterLocked(c)
    /\ UNCHANGED <<closed, stream, close_calls, in_on_close, on_close_runs, snapshot, tok, conn>>

\* The wrapped _process returns: `return result`, then the finally clause, then
\* the lock is released. A streaming call now holds the generator and
\* process_stream starts iterating it.
ProcessReturn(c, elapsed) ==
    /\ pc[c] = "in_process"
    /\ wrapped' = [wrapped EXCEPT ![c] = "returned"]
    /\ metrics' = AddLatency(metrics, elapsed)
    /\ run_time_state' = FinallyState(run_time_state)
    /\ locked' = LockAfterExit(FALSE)
    /\ IF stream[c]
       THEN /\ pc' = [pc EXCEPT ![c] = "streaming"]
            /\ outcome' = [outcome EXCEPT ![c] = "generator"]
       ELSE /\ pc' = [pc EXCEPT ![c] = "done"]
            /\ outcome' = [outcome EXCEPT ![c] = "result"]
    /\ UNCHANGED <<closed, waiters, stream, close_calls, in_on_close, on_close_runs, snapshot, tok, conn>>

\* The wrapped _process raises e: the except clause, the finally clause, the
\* release of the lock, and e goes on to the caller (a bare `raise`).
Reraised_Swallowed(e) == "result"

Reraised(e) == e

ProcessRaise(c, e, elapsed) ==
    /\ pc[c] = "in_process"
    /\ wrapped' = [wrapped EXCEPT ![c] = e]
    /\ metrics' = AddLatency(CountError(metrics), elapsed)
    /\ run_time_state' = FinallyState(ExceptState)
    /\ locked' = LockAfterExit(TRUE)
    /\ pc' = [pc EXCEPT ![c] = "done"]
    /\ outcome' = [outcome EXCEPT ![c] = Reraised(e)]
    /\ UNCHANGED <<closed, waiters, stream, close_calls, in_on_close, on_close_runs, snapshot, tok, conn>>

\* process_stream: `async for chunk in result: yield chunk` runs to the end of
\* the generator (drained), is abandoned by its consumer (cancelled), or the
\* generator raises e. All of it happens after _run has returned.
StreamEnd(c, how) ==
    /\ pc[c] = "streaming"
    /\ pc' = [pc EXCEPT ![c] = "done"]
    /\ outcome' = [outcome EXCEPT ![c] = how]
    /\ UNCHANGED <<agent, stream, wrapped, close_calls, in_on_close, on_close_runs, snapshot, tok, conn>>

\* ------------------------------------------------------------- close()
\* close() up to its first suspension, inside the hook. The hook is entered in
\* the same step: `await self._on_close()` runs it up to its own first await.
CloseGuard_Missing == FALSE

CloseGuard == closed

CloseStart ==
    /\ close_calls < NumClosers
    /\ close_calls' = close_calls + 1
    /\ IF CloseGuard
       THEN UNCHANGED <<closed, run_time_state, on_close_runs, in_on_close>>
       ELSE /\ closed' = TRUE
            /\ run_time_state' = CLOSED
            /\ on_close_runs' = on_close_runs + 1
            /\ in_on_close' = in_on_close + 1
    /\ UNCHANGED <<locked, waiters, metrics, callers, snapshot, tok, conn>>

\* The hook _on_close returns and close() with it.
CloseEnd ==
    /\ in_on_close > 0
    /\ in_on_close' = in_on_close - 1
    /\ UNCHANGED <<agent, callers, close_calls, on_close_runs, snapshot, tok, conn>>

\* ------------------------------------------------------ health_check()
\* total_latency is kept in ticks of 0.00005 s; round(x, 4) rounds to a whole
\* number of 0.0001 s, halves to the even one.
Round4(t) ==
    LET q == t \div 2
    IN  IF t % 2 = 0 THEN t
        ELSE IF q % 2 = 0 THEN 2 * q ELSE 2 * (q + 1)

HealthSnapshot ==
    [state |-> run_time_state,
     total_calls |-> metrics.total_calls,
     total_errors |-> metrics.total_errors,
     total_latency |-> Round4(metrics.total_latency)]

\* health_check() has no await and takes no lock: it runs whenever it is called.
HealthCheck_TakesLock ==
    /\ ~locked
    /\ snapshot' = HealthSnapshot
    /\ UNCHANGED <<agent, callers, close_calls, in_on_close, on_close_runs, tok, conn>>

HealthCheck ==
    /\ snapshot' = HealthSnapshot
    /\ UNCHANGED <<agent, callers, close_calls, in_on_close, on_close_runs, tok, conn>>

\* ---------------------------------------------------------------- spec
\* the calls and close()
AgentNext ==
    \/ \E c \in Calls, s \in BOOLEAN : Start(c, s)
    \/ \E c \in Calls : Resume(c)
    \/ \E c \in Calls, t \in ElapsedTicks : ProcessReturn(c, t)
    \/ \E c \in Calls, e \in Exceptions, t \in ElapsedTicks : ProcessRaise(c, e, t)
    \/ \E c \in Calls, how \in {"drained", "cancelled"} \cup Exceptions : StreamEnd(c, how)
    \/ CloseStart
    \/ CloseEnd

Next == AgentNext \/ HealthCheck

Spec == Init /\ [][Next]_vars

\* The event loop runs every coroutine that is ready to run (a woken waiter),
\* and every wrapped call is assumed to end, by returning or by raising.
ProcessEnds(c) ==
    \/ \E t \in ElapsedTicks : ProcessReturn(c, t)
    \/ \E e \in Exceptions, t \in ElapsedTicks : ProcessRaise(c, e, t)

\* The calls and close() under that scheduling. health_check() is left out: it
\* writes nothing but the snapshot, which no call and no close() reads.
FairSpec ==
    /\ Init
    /\ [][AgentNext]_vars
    /\ \A c \in Calls : WF_vars(Resume(c)) /\ WF_vars(ProcessEnds(c))

(***************************************************************************)
(* Token Budget Manager: src/src/adaptive/token_manager.py.                *)
(*                                                                         *)
(* A text is a sequence of characters. The encoder (tiktoken, a byte-pair  *)
(* encoder) is modelled by a byte-pair encoder with two merges: a token is *)
(* one character or a merged pair, encode scans the text from the left and *)
(* decode joins the tokens. Every call of TokenBudget and TokenManager is  *)
(* a function of its arguments: a behaviour of TokSpec is one call.        *)
(***************************************************************************)
MaxItems == 2          \* longest list given to prioritize_content / compress_conversation

Min(a, b) == IF a <= b THEN a ELSE b
Max(a, b) == IF a >= b THEN a ELSE b

\* the pairs of characters the encoder merges into one token
Merges == {<<"a", "b">>, <<" ", "a">>}

\* the scan of the encoder from character i on: the pair at i is merged when
\* it is a merge, and the scan goes on behind the token
RECURSIVE EncodeFrom(_, _)
EncodeFrom(text, i) ==
    IF i > Len(text) THEN <<>>
    ELSE IF i < Len(text) /\ <<text[i], text[i + 1]>> \in Merges
         THEN <<SubSeq(text, i, i + 1)>> \o EncodeFrom(text, i + 2)
         ELSE <<SubSeq(text, i, i)>> \o EncodeFrom(text, i + 1)

\* the places near the middle of the text where no merge joins the two
\* characters: the scan always ends a token there, so the text can be encoded
\* as two pieces
MiddleCuts(text) ==
    LET mid == Len(text) \div 2
    IN  {i \in {mid - 1, mid, mid + 1} :
            i >= 1 /\ i < Len(text) /\ <<text[i], text[i + 1]>> \notin Merges}

\* self.encoder.encode(text)
RECURSIVE Encode(_)
Encode(text) ==
    IF Len(text) <= 8 \/ MiddleCuts(text) = {}
    THEN EncodeFrom(text, 1)
    ELSE LET i == CHOOSE j \in MiddleCuts(text) : TRUE
         IN  Encode(SubSeq(text, 1, i)) \o Encode(SubSeq(text, i + 1, Len(text)))

\* self.encoder.decode(tokens): the tokens joined, by halves
RECURSIVE Decode(_)
Decode(tokens) ==
    IF tokens = <<>> THEN <<>>
    ELSE IF Len(tokens) = 1 THEN tokens[1]
    ELSE LET half == Len(tokens) \div 2
         IN  Decode(SubSeq(tokens, 1, half)) \o Decode(SubSeq(tokens, half + 1, Len(tokens)))

\* TokenManager.count_tokens
CountTokens(text) == Len(Encode(text))

\* Python's s[:k]
PyHead_OneMore(s, k) == SubSeq(s, 1, Min(k + 1, Len(s)))

PyHead(s, k) ==
    IF k >= 0 THEN SubSeq(s, 1, Min(k, Len(s)))
    ELSE SubSeq(s, 1, Max(0, Len(s) + k))

\* Python's s[-k:] (s[-0:] is s[0:], the whole of s)
PyTail(s, k) ==
    IF k = 0 THEN s
    ELSE IF k > 0 THEN SubSeq(s, Max(1, Len(s) - k + 1), Len(s))
    ELSE SubSeq(s, 1 - k, Len(s))

\* the tokens truncate_text keeps when the text is too long
TruncatedTokens(tokens, max_tokens, strategy) ==
    IF strategy = "start" THEN PyTail(tokens, max_tokens)
    ELSE IF strategy = "middle"
    THEN LET start_len == max_tokens \div 2
             end_len == max_tokens - start_len
         IN  PyHead(tokens, start_len) \o PyTail(tokens, end_len)
    ELSE PyHead(tokens, max_tokens)

\* TokenManager.truncate_text
TruncateText(text, max_tokens, strategy) ==
    LET tokens == Encode(text)
    IN  IF Len(tokens) <= max_tokens THEN text
        ELSE Decode(TruncatedTokens(tokens, max_tokens, strategy))

\* ---------------------------------------------------------- TokenBudget
\* Python's int(num / den): the quotient cut toward zero
PyInt(num, den) == IF num >= 0 THEN num \div den ELSE -((-num) \div den)

\* TokenBudget(max_tokens, reserved_for_response, buffer_percentage): the
\* dataclass stores its arguments as they are. buffer_percentage is kept in
\* hundredths (buffer_pct = 10 is 0.1).
NewTokenBudget(m, r, p) ==
    [done |-> TRUE, err |-> "none",
     val |-> [max_tokens |-> m, reserved_for_response |-> r, buffer_pct |-> p]]

\* TokenBudget.available_tokens
AvailableTokens(b) == b.max_tokens - b.reserved_for_response

\* TokenBudget.safe_available_tokens
SafeAvailableTokens(b) == PyInt(AvailableTokens(b) * (100 - b.buffer_pct), 100)

\* --------------------------------------------------- prioritize_content
\* `if remaining_tokens > 50`
MinRemainingTokens == 50

\* `if remaining_tokens > 50`: whether the overflowing item is appended truncated
TruncatesOverflow_FromFifty(remaining_tokens) == remaining_tokens >= MinRemainingTokens

TruncatesOverflow(remaining_tokens) == remaining_tokens > MinRemainingTokens

\* the loop of prioritize_content from item i on, with the list built and the
\* tokens counted so far
RECURSIVE PrioritizeFrom_SkipsOverflow(_, _, _, _, _)
PrioritizeFrom_SkipsOverflow(contents, budget, i, prioritized, total_tokens) ==
    IF i > Len(contents) THEN prioritized
    ELSE LET content == contents[i]
             content_tokens == CountTokens(content)
         IN  IF total_tokens + content_tokens <= SafeAvailableTokens(budget)
             THEN PrioritizeFrom_SkipsOverflow(contents, budget, i + 1,
                                               Append(prioritized, content),
                                               total_tokens + content_tokens)
             ELSE PrioritizeFrom_SkipsOverflow(contents, budget, i + 1,
                                               prioritized, total_tokens)

RECURSIVE PrioritizeFrom(_, _, _, _, _)
PrioritizeFrom(contents, budget, i, prioritized, total_tokens) ==
    IF i > Len(contents) THEN prioritized
    ELSE LET content == contents[i]
             content_tokens == CountTokens(content)
         IN  IF total_tokens + content_tokens <= SafeAvailableTokens(budget)
             THEN PrioritizeFrom(contents, budget, i + 1,
                                 Append(prioritized, content),
                                 total_tokens + content_tokens)
             ELSE LET remaining_tokens == SafeAvailableTokens(budget) - total_tokens
                  IN  IF TruncatesOverflow(remaining_tokens)
                      THEN Append(prioritized,
                                  TruncateText(content, remaining_tokens, "end"))
                      ELSE prioritized

\* TokenManager.prioritize_content
PrioritizeContent(contents, budget) ==
    PrioritizeFrom(contents, budget, 1, <<>>, 0)

\* ------------------------------------------------ compress_conversation
\* `min(50, ...)` and `if summary_tokens > 10`
MaxSummaryTokens == 50
MinSummaryTokens == 10

\* "[摘要] ": five characters, the last one a space
SummaryPrefix == <<"[", "zhai", "yao", "]", " ">>

\* f"{message['role']}: {message['content']}"
MessageText(message) == <<message.role, ":", " ">> \o message.content

\* `compressed_messages.pop(0) if compressed_messages else None`: whether
\* pop(0) is called
PopsOldest_Always(compressed) == TRUE

PopsOldest(compressed) == compressed # <<>>

\* the second `if total_tokens + message_tokens <= budget.safe_available_tokens`
RetryFits_Always(total_tokens, message_tokens, budget) == TRUE

RetryFits(total_tokens, message_tokens, budget) ==
    total_tokens + message_tokens <= SafeAvailableTokens(budget)

\* the message put in the place of the oldest message kept
Summary(oldest_message, summary_tokens) ==
    [role |-> oldest_message.role,
     content |-> SummaryPrefix \o
                 TruncateText(oldest_message.content, summary_tokens, "end")]

\* the else branch of compress_conversation: summarize the oldest message kept,
\* try the current message again, and stop. total_tokens is not reduced by
\* the message popped.
CompressOverflow(compressed, total_tokens, message, budget) ==
    IF PopsOldest(compressed) /\ compressed = <<>>
    THEN [err |-> "IndexError", val |-> <<>>]
    ELSE LET popped == PopsOldest(compressed)
             rest == IF popped THEN Tail(compressed) ELSE compressed
             message_tokens == CountTokens(MessageText(message))
             summary_tokens ==
                 Min(MaxSummaryTokens, SafeAvailableTokens(budget) - total_tokens)
             summarizes == popped /\ summary_tokens > MinSummaryTokens
             kept == IF summarizes
                     THEN <<Summary(Head(compressed), summary_tokens)>> \o rest
                     ELSE rest
             total_after ==
                 IF summarizes
                 THEN total_tokens + CountTokens(kept[1].content)
                 ELSE total_tokens
         IN  [err |-> "none",
              val |-> IF RetryFits(total_after, message_tokens, budget)
                      THEN Append(kept, message)
                      ELSE kept]

\* the loop of compress_conversation, from message i down to the first
RECURSIVE CompressFrom(_, _, _, _, _)
CompressFrom(messages, budget, i, compressed, total_tokens) ==
    IF i < 1 THEN [err |-> "none", val |-> compressed]
    ELSE LET message == messages[i]
             message_tokens == CountTokens(MessageText(message))
         IN  IF total_tokens + message_tokens <= SafeAvailableTokens(budget)
             THEN CompressFrom(messages, budget, i - 1,
                               <<message>> \o compressed,
                               total_tokens + message_tokens)
             ELSE CompressOverflow(compressed, total_tokens, message, budget)

\* TokenManager.compress_conversation
CompressConversation(messages, budget) ==
    CompressFrom(messages, budget, Len(messages), <<>>, 0)

\* ------------------------------------------------------------ the inputs
\* a text of n characters none of which merges with its neighbour (n tokens)
Plain(n) == [i \in 1..n |-> IF i % 3 = 1 THEN "a" ELSE IF i % 3 = 2 THEN "x" ELSE "b"]

\* a text of n merged pairs (2n characters, n tokens)
Pairs(n) == [i \in 1..(2 * n) |-> IF i % 2 = 1 THEN "a" ELSE "b"]

Texts == {Plain(n) : n \in {0, 5, 12, 30, 60, 80}} \cup {Pairs(n) : n \in {12, 60}}

Strategies == {"end", "start", "middle"}

TokenLimits == {0, 1, 2, 11, 12, 30, 61}

Budget(m, r, p) == [max_tokens |-> m, reserved_for_response |-> r, buffer_pct |-> p]

BudgetArgs ==
    {<<100, 20, 10>>, <<120, 20, 0>>, <<50, 30, 0>>, <<47, 20, 0>>, <<562, 512, 10>>,
     <<20, 20, 50>>, <<10, 15, 10>>, <<20, 512, 10>>}

Budgets == {Budget(a[1], a[2], a[3]) : a \in BudgetArgs}

BudgetCalls ==
    {[NoCall EXCEPT !.op = "TokenBudget", !.budget = b] : b \in Budgets}

TruncateCalls ==
    {[NoCall EXCEPT !.op = "truncate_text", !.text = t, !.max_tokens = k, !.strategy = st] :
        t \in Texts, k \in TokenLimits, st \in Strategies}

Lists(S) == UNION {[1..n -> S] : n \in 0..MaxItems}

ItemTexts == {Plain(n) : n \in {0, 5, 12, 30, 60, 80}} \cup {Pairs(12)}

PrioritizeCalls ==
    {[NoCall EXCEPT !.op = "prioritize_content", !.items = l, !.budget = b] :
        l \in Lists(ItemTexts), b \in Budgets}

Messages == [role : {"user", "assistant"}, content : ItemTexts]

CompressCalls ==
    {[NoCall EXCEPT !.op = "compress_conversation", !.messages = l, !.budget = b] :
        l \in Lists(Messages), b \in Budgets}

TokCalls == BudgetCalls \cup TruncateCalls \cup PrioritizeCalls \cup CompressCalls

\* -------------------------------------------------------------- TokSpec
TokInit ==
    /\ AgentInit
    /\ ConnIdle
    /\ tm_call \in TokCalls
    /\ tm_result = NoResult

Returns(v) == [done |-> TRUE, err |-> "none", val |-> v]

CallTokenBudget ==
    /\ tm_call.op = "TokenBudget"
    /\ ~tm_result.done
    /\ tm_result' = NewTokenBudget(tm_call.budget.max_tokens,
                                   tm_call.budget.reserved_for_response,
                                   tm_call.budget.buffer_pct)
    /\ UNCHANGED <<agent, callers, close_calls, in_on_close, on_close_runs, snapshot, tm_call, conn>>

CallTruncateText ==
    /\ tm_call.op = "truncate_text"
    /\ ~tm_result.done
    /\ tm_result' = Returns(TruncateText(tm_call.text, tm_call.max_tokens, tm_call.strategy))
    /\ UNCHANGED <<agent, callers, close_calls, in_on_close, on_close_runs, snapshot, tm_call, conn>>

CallPrioritizeContent ==
    /\ tm_call.op = "prioritize_content"
    /\ ~tm_result.done
    /\ tm_result' = Returns(PrioritizeContent(tm_call.items, tm_call.budget))
    /\ UNCHANGED <<agent, callers, close_calls, in_on_close, on_close_runs, snapshot, tm_call, conn>>

CallCompressConversation ==
    /\ tm_call.op = "compress_conversation"
    /\ ~tm_result.done
    /\ tm_result' = [done |-> TRUE] @@ CompressConversation(tm_call.messages, tm_call.budget)
    /\ UNCHANGED <<agent, callers, close_calls, in_on_close, on_close_runs, snapshot, tm_call, conn>>

TokNext ==
    \/ CallTokenBudget
    \/ CallTruncateText
    \/ CallPrioritizeContent
    \/ CallCompressConversation

TokSpec == TokInit /\ [][TokNext]_vars

(***************************************************************************)
(* WebSocket ConnectionManager: src/src/api/websocket/connection_manager.py *)
(*                                                                         *)
(* Each task makes one call. A call suspends at `await websocket.accept()`, *)
(* at `async with self._lock` when the lock is taken, and inside            *)
(* `await ... send_json(message)`, which it awaits with the lock held.      *)
(* active_connections is kept as the set of its session ids: the order in   *)
(* which broadcast walks them is any order.                                 *)
(***************************************************************************)
\* asyncio.Lock.acquire returns at once only when the lock is free and nobody
\* is queued for it. The lock is not reentrant: it does not know its holder.
CmLockAvailable == ~cm_locked /\ cm_waiters = <<>>

CmCalls ==
    {[NoTask EXCEPT !.op = o, !.session_id = sid] :
        o \in {"connect", "disconnect", "send_message"}, sid \in Sessions}
    \cup {[NoTask EXCEPT !.op = "broadcast", !.exclude_sessions = x] : x \in {{}, {"s1"}}}

\* the call returns: its `async with self._lock` is left, the lock released
CmReturn(t, task) ==
    /\ cm_locked' = FALSE
    /\ cm_task' = [cm_task EXCEPT ![t] = [task EXCEPT !.pc = "done"]]

\* the body of the `async with self._lock` of task t's call, from the moment
\* the lock is taken to the first await inside it or to the return
CmEnter(t, task) ==
    CASE task.op = "connect" ->
            /\ active_connections' = active_connections \cup {task.session_id}
            /\ CmReturn(t, task)
      [] task.op = "disconnect" ->
            /\ active_connections' = active_connections \ {task.session_id}
            /\ CmReturn(t, task)
      [] task.op = "send_message" ->
            /\ UNCHANGED active_connections
            /\ IF task.session_id \in active_connections
               THEN /\ cm_locked' = TRUE
                    /\ cm_task' = [cm_task EXCEPT ![t] = [task EXCEPT !.pc = "sending"]]
               ELSE CmReturn(t, task)
      [] task.op = "broadcast" ->
            /\ UNCHANGED active_connections
            /\ LET todo == active_connections \ task.exclude_sessions
               IN  IF todo # {}
                   THEN /\ cm_locked' = TRUE
                        /\ cm_task' = [cm_task EXCEPT ![t] =
                                          [task EXCEPT !.pc = "sending", !.todo = todo]]
                   ELSE CmReturn(t, task)

\* `async with self._lock` reached by task t
CmAcquire(t, task) ==
    IF CmLockAvailable
    THEN CmEnter(t, task) /\ UNCHANGED cm_waiters
    ELSE /\ cm_waiters' = Append(cm_waiters, t)
         /\ cm_task' = [cm_task EXCEPT ![t] = [task EXCEPT !.pc = "waiting"]]
         /\ UNCHANGED <<active_connections, cm_locked>>

\* `await self.disconnect(session_id)` called by send_message or broadcast from
\* inside their own `async with self._lock`: disconnect asks for the lock
NestedDisconnect(t, task) ==
    IF CmLockAvailable
    THEN /\ active_connections' = active_connections \ {Head(task.disconnected)}
         /\ CmReturn(t, task)
         /\ UNCHANGED cm_waiters
    ELSE /\ cm_waiters' = Append(cm_waiters, t)
         /\ cm_task' = [cm_task EXCEPT ![t] = [task EXCEPT !.pc = "waiting_in_disconnect"]]
         /\ UNCHANGED <<active_connections, cm_locked>>

\* a task makes its call: connect, disconnect, send_message or broadcast, up to
\* the first suspension
CmCall(t, task) ==
    /\ cm_task[t].pc = "new"
    /\ IF task.op = "connect"
       THEN /\ cm_task' = [cm_task EXCEPT ![t] = [task EXCEPT !.pc = "accepting"]]
            /\ UNCHANGED <<active_connections, cm_locked, cm_waiters>>
       ELSE CmAcquire(t, task)
    /\ UNCHANGED <<agent, callers, close_calls, in_on_close, on_close_runs, snapshot, tok>>

\* `await websocket.accept()` returns and connect goes on to the lock
Accepted(t) ==
    /\ cm_task[t].pc = "accepting"
    /\ CmAcquire(t, cm_task[t])
    /\ UNCHANGED <<agent, callers, close_calls, in_on_close, on_close_runs, snapshot, tok>>

\* the release of the lock wakes the first task queued for it. A task queued
\* inside the nested disconnect goes on there: it removes the session and
\* leaves the inner `async with`.
Wake(t) ==
    /\ cm_task[t].pc \in {"waiting", "waiting_in_disconnect"}
    /\ ~cm_locked
    /\ cm_waiters # <<>>
    /\ Head(cm_waiters) = t
    /\ cm_waiters' = Tail(cm_waiters)
    /\ IF cm_task[t].pc = "waiting"
       THEN CmEnter(t, cm_task[t])
       ELSE /\ active_connections' = active_connections \ {Head(cm_task[t].disconnected)}
            /\ CmReturn(t, cm_task[t])
    /\ UNCHANGED <<agent, callers, close_calls, in_on_close, on_close_runs, snapshot, tok>>

\* broadcast after one send_json: the next session, or the cleanup loop
AfterSend(t, task) ==
    IF task.todo # {}
    THEN /\ cm_task' = [cm_task EXCEPT ![t] = task]
         /\ UNCHANGED <<active_connections, cm_locked, cm_waiters>>
    ELSE IF task.disconnected = <<>>
    THEN CmReturn(t, task) /\ UNCHANGED <<active_connections, cm_waiters>>
    ELSE NestedDisconnect(t, task)

\* send_json returns
SendReturns(t) ==
    /\ cm_task[t].pc = "sending"
    /\ IF cm_task[t].op = "send_message"
       THEN CmReturn(t, cm_task[t]) /\ UNCHANGED <<active_connections, cm_waiters>>
       ELSE \E sid \in cm_task[t].todo :
                AfterSend(t, [cm_task[t] EXCEPT !.todo = @ \ {sid}])
    /\ UNCHANGED <<agent, callers, close_calls, in_on_close, on_close_runs, snapshot, tok>>

\* send_json raises: the except clause
SendRaises(t) ==
    /\ cm_task[t].pc = "sending"
    /\ IF cm_task[t].op = "send_message"
       THEN NestedDisconnect(t, [cm_task[t] EXCEPT
                                    !.failed = TRUE,
                                    !.disconnected = <<cm_task[t].session_id>>])
       ELSE \E sid \in cm_task[t].todo :
                AfterSend(t, [cm_task[t] EXCEPT !.todo = @ \ {sid},
                                               !.failed = TRUE,
                                               !.disconnected = Append(@, sid)])
    /\ UNCHANGED <<agent, callers, close_calls, in_on_close, on_close_runs, snapshot, tok>>

ConnNext ==
    \/ \E t \in Tasks, task \in CmCalls : CmCall(t, task)
    \/ \E t \in Tasks : Accepted(t)
    \/ \E t \in Tasks : Wake(t)
    \/ \E t \in Tasks : SendReturns(t)
    \/ \E t \in Tasks : SendRaises(t)

\* The event loop runs every task that is ready to run, and every accept and
\* every send_json is assumed to end, by returning or by raising.
SendEnds(t) == SendReturns(t) \/ SendRaises(t)

FairConnSpec ==
    /\ Init
    /\ [][ConnNext]_vars
    /\ \A t \in Tasks : WF_vars(Accepted(t)) /\ WF_vars(Wake(t)) /\ WF_vars(SendEnds(t))

\* ------------------------------------------------------- PrioritizeSpec
\* prioritize_content on lists of up to MaxContents items of 12, 30 and 60
\* tokens, with safe_available_tokens 72, 62 and 63
MaxContents == 3

ScenarioTexts == {Plain(n) : n \in {12, 30, 60}}

ScenarioBudgets == {Budget(100, 20, 10), Budget(82, 20, 0), Budget(83, 20, 0)}

ScenarioPrioritizeCalls ==
    {[NoCall EXCEPT !.op = "prioritize_content", !.items = l, !.budget = b] :
        l \in UNION {[1..n -> ScenarioTexts] : n \in 0..MaxContents},
        b \in ScenarioBudgets}

PrioritizeInit ==
    /\ AgentInit
    /\ ConnIdle
    /\ tm_call \in ScenarioPrioritizeCalls
    /\ tm_result = NoResult

PrioritizeSpec == PrioritizeInit /\ [][CallPrioritizeContent]_vars

\* --------------------------------------------------------- CompressSpec
\* compress_conversation on histories of up to MaxMessages messages that cost
\* 20 or 62 tokens each, with safe_available_tokens 72, 73 and 120
MaxMessages == 5

ScenarioMessages ==
    {[role |-> "user", content |-> Plain(18)],
     [role |-> "assistant", content |-> Plain(18)],
     [role |-> "user", content |-> Plain(60)]}

CompressBudgets == {Budget(100, 20, 10), Budget(93, 20, 0), Budget(140, 20, 0)}

ScenarioCompressCalls ==
    {[NoCall EXCEPT !.op = "compress_conversation", !.messages = l, !.budget = b] :
        l \in UNION {[1..n -> ScenarioMessages] : n \in 0..MaxMessages},
        b \in CompressBudgets}

CompressInit ==
    /\ AgentInit
    /\ ConnIdle
    /\ tm_call \in ScenarioCompressCalls
    /\ tm_result = NoResult

CompressSpec == CompressInit /\ [][CallCompressConversation]_vars

\* ---------------------------------------------------------------- claims
InProcess == {c \in Calls : pc[c] = "in_process"}

\* C1: at most one call is inside the wrapped _process at any time, and the one
\* that is inside holds the lock.
C1_MutualExclusion ==
    /\ Cardinality(InProcess) <= 1
    /\ \A c \in InProcess : locked /\ wrapped[c] = "running"
    /\ run_time_state = RUNNING => InProcess # {}

\* a process() call is inside the wrapped function while another process()
\* call, made meanwhile, waits for the lock
C1_Witness ==
    \E c1, c2 \in Calls :
        /\ pc[c1] = "in_process" /\ ~stream[c1] /\ run_time_state = RUNNING
        /\ pc[c2] = "waiting" /\ ~stream[c2]

\* C2: while the stream of one process_stream() call is being consumed, the
\* lock is held and no other call is inside the wrapped function or consuming
\* a stream of its own.
C2_StreamHoldsRight ==
    \A c1 \in Calls :
        pc[c1] = "streaming" =>
            /\ locked
            /\ \A c2 \in Calls \ {c1} : pc[c2] \notin {"in_process", "streaming"}

\* C3: no step takes run_time_state out of CLOSED.
C3_ClosedIsTerminal == [][run_time_state = CLOSED => run_time_state' = CLOSED]_vars

\* C4: a call that starts when close() has been called ends at once with the
\* closed error; the wrapped function is not called for it, and total_calls,
\* total_errors and the state stay as they are.
C4_RejectedAfterClose ==
    [][\A c \in Calls :
          (closed /\ pc[c] = "new" /\ pc'[c] # "new") =>
              /\ pc'[c] = "done"
              /\ outcome'[c] = ClosedError
              /\ wrapped'[c] = "not_called"
              /\ metrics'.total_calls = metrics.total_calls
              /\ metrics'.total_errors = metrics.total_errors
              /\ run_time_state' = run_time_state]_vars

\* a process() call and a process_stream() call were both rejected by that check
C4_Witness ==
    \E c1, c2 \in Calls :
        /\ outcome[c1] = ClosedError /\ ~stream[c1]
        /\ outcome[c2] = ClosedError /\ stream[c2]

\* C5: the hook _on_close has run exactly once as soon as close() has been
\* called, however many close() calls there are, and a close() call on a
\* closed instance changes nothing.
C5_CloseIdempotent ==
    /\ [](on_close_runs = IF close_calls > 0 THEN 1 ELSE 0)
    /\ [][(closed /\ close_calls' # close_calls) =>
            UNCHANGED <<agent, callers, in_on_close, on_close_runs>>]_vars

\* a second close() was called while the first one was suspended in the hook
C5_Witness == close_calls >= 2 /\ in_on_close = 1 /\ on_close_runs = 1

Finished == {c \in Calls : pc[c] = "done"}
Quiet == \A c \in Calls : pc[c] \in {"new", "done"}

\* C6: when close() was never called and every call made so far was a
\* process() that has returned its result, total_calls is the number of those
\* calls, total_errors is 0 and the state is IDLE.
C6_AllSucceed ==
    (/\ close_calls = 0
     /\ Quiet
     /\ Finished # {}
     /\ \A c \in Finished : ~stream[c] /\ wrapped[c] = "returned")
    => /\ metrics.total_calls = Cardinality(Finished)
       /\ metrics.total_errors = 0
       /\ run_time_state = IDLE

\* every process() call has been made and has returned its result
C6_Witness ==
    /\ close_calls = 0
    /\ \A c \in Calls : pc[c] = "done" /\ ~stream[c] /\ outcome[c] = "result"

\* C7: when close() was never called and the wrapped function has raised in
\* every process() call made so far, total_calls and total_errors are both the
\* number of those calls and the state is IDLE.
C7_AllRaise ==
    (/\ close_calls = 0
     /\ Quiet
     /\ Finished # {}
     /\ \A c \in Finished : ~stream[c] /\ wrapped[c] \in Exceptions)
    => /\ metrics.total_calls = Cardinality(Finished)
       /\ metrics.total_errors = Cardinality(Finished)
       /\ run_time_state = IDLE

\* every process() call has been made and the wrapped function raised in each
C7_Witness ==
    /\ close_calls = 0
    /\ \A c \in Calls : pc[c] = "done" /\ ~stream[c] /\ wrapped[c] \in Exceptions

Raised == {c \in Calls : wrapped[c] \in Exceptions}

C9_WaiterRuns ==
    /\ [](locked <=> InProcess # {})
    /\ [](\A c \in Calls : outcome[c] \in {ClosedError, AlreadyClosedError} => closed)
    /\ \A c \in Calls :
          (pc[c] = "waiting") ~>
              (wrapped[c] = "running" \/ (closed /\ outcome[c] = AlreadyClosedError))

\* a call that had to wait has run after the lock holder's wrapped call raised
C9_Witness ==
    \E c1, c2 \in Calls :
        /\ wrapped[c1] \in Exceptions
        /\ pc[c2] = "in_process"
        /\ ~closed
        /\ metrics.total_calls = 2

\* C10: health_check() can run in every state, also when the lock is held,
\* and the step it takes changes nothing of the instance.
C10_HealthCheckFrame ==
    /\ [](ENABLED HealthCheck)
    /\ [][snapshot' # snapshot =>
            /\ snapshot' = HealthSnapshot
            /\ UNCHANGED <<agent, callers, close_calls, in_on_close, on_close_runs>>]_vars

\* a snapshot was taken while the call now running held the lock
C10_Witness ==
    /\ locked
    /\ run_time_state = RUNNING
    /\ snapshot.state = RUNNING
    /\ snapshot.total_calls = metrics.total_calls

\* ------------------------------------------------- claims, token manager
TruncateDone(st) ==
    tm_call.op = "truncate_text" /\ tm_call.strategy = st /\ tm_result.done

CompressDone == tm_call.op = "compress_conversation" /\ tm_result.done

\* the summed token count of the contents of a list of messages
RECURSIVE ContentTokens(_)
ContentTokens(messages) ==
    IF messages = <<>> THEN 0
    ELSE CountTokens(Head(messages).content) + ContentTokens(Tail(messages))

\* the summed token count of a list of messages counted as compress_conversation
\* counts them, role included
RECURSIVE HistoryTokens(_)
HistoryTokens(messages) ==
    IF messages = <<>> THEN 0
    ELSE CountTokens(MessageText(Head(messages))) + HistoryTokens(Tail(messages))

\* C12: compress_conversation never increases the total token count: the
\* messages returned, the summary prefix included, sum to at most the token
\* count of the unmodified input history, counted by content and counted with
\* the roles.
C12_NeverMoreTokens ==
    (CompressDone /\ tm_result.err = "none") =>
        /\ ContentTokens(tm_result.val) <= ContentTokens(tm_call.messages)
        /\ HistoryTokens(tm_result.val) <= HistoryTokens(tm_call.messages)

\* a message is returned with the summary prefix put before its whole content:
\* the one case in which compress_conversation adds tokens to a message
C12_Witness ==
    /\ CompressDone
    /\ tm_result.val # <<>>
    /\ \E j \in 1..Len(tm_call.messages) :
           /\ tm_call.messages[j].content # <<>>
           /\ tm_result.val[1].content = SummaryPrefix \o tm_call.messages[j].content

\* C13: compress_conversation of a history that is not empty, with a budget
\* whose safe_available_tokens is at least the cost of the newest message,
\* never returns an empty list.
C13_NewestKept ==
    (/\ CompressDone
     /\ tm_call.messages # <<>>
     /\ SafeAvailableTokens(tm_call.budget) >=
            CountTokens(MessageText(tm_call.messages[Len(tm_call.messages)])))
        => tm_result.val # <<>>

PrioritizeDone == tm_call.op = "prioritize_content" /\ tm_result.done

\* the summed token count of a list of texts
RECURSIVE TextTokens(_)
TextTokens(contents) ==
    IF contents = <<>> THEN 0
    ELSE CountTokens(Head(contents)) + TextTokens(Tail(contents))

\* the number of leading items that fit, one after the other, in the budget:
\* the item after them is the first overflowing item
WholeCount(contents, budget) ==
    Cardinality({n \in 1..Len(contents) :
        \A k \in 1..n :
            TextTokens(SubSeq(contents, 1, k)) <= SafeAvailableTokens(budget)})

\* C14: prioritize_content returns the leading items of the input that fit,
\* whole and in input order, followed by nothing or by one truncated version
\* (the first tokens) of the first overflowing item; no later item is returned.
C14_OrderKept ==
    PrioritizeDone =>
        LET contents == tm_call.items
            out == tm_result.val
            n == WholeCount(contents, tm_call.budget)
        IN  /\ Len(out) \in {n, n + 1}
            /\ SubSeq(out, 1, n) = SubSeq(contents, 1, n)
            /\ Len(out) = n + 1 =>
                   /\ n < Len(contents)
                   /\ out[n + 1] # contents[n + 1]
                   /\ Encode(out[n + 1]) =
                          PyHead(Encode(contents[n + 1]), CountTokens(out[n + 1]))

\* the first item was kept whole and the second, which did not fit, was
\* returned truncated
C14_Witness ==
    /\ PrioritizeDone
    /\ Len(tm_call.items) >= 2
    /\ Len(tm_result.val) = 2
    /\ tm_result.val[1] = tm_call.items[1]
    /\ tm_result.val[1] # <<>>
    /\ tm_result.val[2] # tm_call.items[2]

BudgetDone == tm_call.op = "TokenBudget" /\ tm_result.done

\* C15: a TokenBudget with reserved_for_response >= max_tokens is rejected at
\* construction, and a budget that was constructed has available_tokens > 0.
C15_BudgetRejected ==
    BudgetDone =>
        IF tm_call.budget.reserved_for_response >= tm_call.budget.max_tokens
        THEN tm_result.err # "none"
        ELSE tm_result.err = "none" /\ AvailableTokens(tm_result.val) > 0

\* C16: prioritize_content and compress_conversation raise nothing and return
\* a list, whatever the input and the budget.
C16_NeverRaises ==
    (PrioritizeDone \/ CompressDone) =>
        /\ tm_result.err = "none"
        /\ Len(tm_result.val) <= Len(tm_call.items) + Len(tm_call.messages)

\* compress_conversation was given messages and a budget with no room at all,
\* and returned the empty list
C16_Witness ==
    /\ CompressDone
    /\ tm_call.messages # <<>>
    /\ SafeAvailableTokens(tm_call.budget) <= 0
    /\ tm_result.err = "none"
    /\ tm_result.val = <<>>

\* floor(available * (1 - buffer_percentage)), the buffer in hundredths
\* (\div rounds toward minus infinity)
Floor(num, den) == num \div den

\* C17: available_tokens is max_tokens - reserved_for_response and
\* safe_available_tokens is floor(available_tokens * (1 - buffer_percentage)),
\* for every TokenBudget constructed.
C17_SafeIsFloor ==
    (BudgetDone /\ tm_result.err = "none") =>
        LET b == tm_result.val
        IN  /\ AvailableTokens(b) = tm_call.budget.max_tokens -
                                     tm_call.budget.reserved_for_response
            /\ SafeAvailableTokens(b) =
                   Floor(AvailableTokens(b) * (100 - b.buffer_pct), 100)

\* C18: once close() has been called, no call that has not entered the wrapped
\* function enters it, a call waiting for the lock included.
C18_NoEntryAfterClose ==
    [][\A c \in Calls :
          (closed /\ wrapped[c] = "not_called") => wrapped'[c] = "not_called"]_vars

\* C19: the except clause of a call sets ERROR only over RUNNING: when the
\* wrapped function raises, the state it finds is RUNNING.
C19_ErrorOnlyFromRunning ==
    [][\A c \in Calls :
          (wrapped[c] = "running" /\ wrapped'[c] \in Exceptions) =>
              run_time_state = RUNNING]_vars

\* C20: wherever another coroutine can run, the state is not ERROR, and no
\* health_check() ever returned ERROR.
C20_ErrorUnobservable ==
    /\ run_time_state \in {IDLE, RUNNING, CLOSED}
    /\ snapshot.state # ERROR

\* a call failed, and health_check() was called after its cleanup and before
\* anything else ran
C20_Witness ==
    /\ Raised # {}
    /\ close_calls = 0
    /\ snapshot.total_errors = Cardinality(Raised)
    /\ snapshot.state = IDLE

\* C21: when the consumer of a stream abandons it, that call holds nothing:
\* unless another call is inside the wrapped function, the lock is free, and
\* the state is IDLE unless close() was called.
C21_AbandonReleases ==
    [][\A c \in Calls :
          (pc[c] = "streaming" /\ outcome'[c] = "cancelled") =>
              ((\A c2 \in Calls : pc'[c2] # "in_process") =>
                  (/\ ~locked'
                   /\ (~closed' => run_time_state' = IDLE)))]_vars

\* a stream was abandoned, the lock is free, the state is IDLE, and a call made
\* afterwards went into the wrapped function
C21_Witness ==
    \E c1, c2 \in Calls :
        /\ stream[c1] /\ outcome[c1] = "cancelled"
        /\ pc[c2] = "done" /\ outcome[c2] = "result"
        /\ ~locked /\ run_time_state = IDLE /\ ~closed

\* C22: total_calls and total_errors never decrease; total_calls is changed
\* only by the call that takes the lock in that step and is then the one call
\* inside the wrapped function, total_errors only by the one call that was
\* inside it and holds the lock; close() and rejected calls change neither.
C22_MetricsUnderLock ==
    [][/\ metrics'.total_calls >= metrics.total_calls
       /\ metrics'.total_errors >= metrics.total_errors
       /\ metrics'.total_calls # metrics.total_calls =>
              \E c \in Calls :
                  pc[c] # "in_process" /\ InProcess' = {c} /\ locked'
       /\ metrics'.total_errors # metrics.total_errors =>
              \E c \in Calls :
                  InProcess = {c} /\ locked /\ pc'[c] = "done"
       /\ close_calls' # close_calls \/ in_on_close' # in_on_close =>
              metrics' = metrics
       /\ \A c \in Calls :
              (outcome[c] = "none" /\ outcome'[c] \in {ClosedError, AlreadyClosedError}) =>
                  /\ metrics'.total_calls = metrics.total_calls
                  /\ metrics'.total_errors = metrics.total_errors]_vars

\* one call was counted and failed, close() was called, and a later call was
\* rejected: the counters still say one call and one error
C22_Witness ==
    /\ metrics.total_calls = 1
    /\ metrics.total_errors = 1
    /\ close_calls > 0
    /\ \E c \in Calls : outcome[c] = ClosedError

\* the first n and the last n tokens of a token list
FirstTokens(tokens, n) == SubSeq(tokens, 1, n)
LastTokens(tokens, n) == SubSeq(tokens, Len(tokens) - n + 1, Len(tokens))

\* C23: truncate_text(text, k, "start") of a text of more than k tokens is the
\* decoding of its last k tokens, and has k tokens, for every k >= 0.
C23_TruncateStart ==
    (TruncateDone("start") /\ CountTokens(tm_call.text) > tm_call.max_tokens) =>
        /\ tm_result.val = Decode(LastTokens(Encode(tm_call.text), tm_call.max_tokens))
        /\ CountTokens(tm_result.val) = tm_call.max_tokens

\* C24: truncate_text(text, k, "middle") of a text of more than k tokens is the
\* decoding of its first k // 2 tokens followed by its last k - k // 2 tokens,
\* k tokens in all, for every k >= 0.
C24_TruncateMiddle ==
    (TruncateDone("middle") /\ CountTokens(tm_call.text) > tm_call.max_tokens) =>
        LET tokens == Encode(tm_call.text)
            k == tm_call.max_tokens
            kept == FirstTokens(tokens, k \div 2) \o LastTokens(tokens, k - (k \div 2))
        IN  /\ Len(kept) = k
            /\ tm_result.val = Decode(kept)

IsVersionOf(o, m) ==
    /\ o.role = m.role
    /\ \/ o.content = m.content
       \/ \E n \in 0..CountTokens(m.content) :
              o.content = SummaryPrefix \o Decode(FirstTokens(Encode(m.content), n))

\* C26: the messages compress_conversation returns, whole or summarized, are
\* in the order of their originals in the input.
C26_ChronologicalOrder ==
    CompressDone =>
        \E f \in [1..Len(tm_result.val) -> 1..Len(tm_call.messages)] :
            /\ \A j, k \in 1..Len(tm_result.val) : j < k => f[j] < f[k]
            /\ \A j \in 1..Len(tm_result.val) :
                   IsVersionOf(tm_result.val[j], tm_call.messages[f[j]])

\* a summary was returned, followed by at least two whole messages
C26_Witness ==
    /\ CompressDone
    /\ Len(tm_result.val) >= 3
    /\ \A j \in 1..Len(tm_call.messages) : tm_result.val[1] # tm_call.messages[j]
    /\ \A j \in 2..Len(tm_result.val) :
           tm_result.val[j] = tm_call.messages[Len(tm_call.messages) - Len(tm_result.val) + j]

\* the k newest messages of a history
Newest(messages, k) == SubSeq(messages, Len(messages) - k + 1, Len(messages))

\* C27: of five messages of 20 tokens each, with safe_available_tokens 72, the
\* three newest are returned whole, and before them at most one summary of one
\* of the two oldest.
C27_ThreeNewestWhole ==
    (/\ CompressDone
     /\ Len(tm_call.messages) = 5
     /\ \A j \in 1..5 : CountTokens(MessageText(tm_call.messages[j])) = 20
     /\ SafeAvailableTokens(tm_call.budget) = 72)
        => LET out == tm_result.val
           IN  /\ Len(out) \in {3, 4}
               /\ Newest(out, 3) = Newest(tm_call.messages, 3)
               /\ Len(out) = 4 =>
                      \E j \in 1..2 :
                          /\ out[1] # tm_call.messages[j]
                          /\ IsVersionOf(out[1], tm_call.messages[j])

\* the number of newest messages that fit, one after the other, in the budget
KeptCount(messages, budget) ==
    Cardinality({n \in 1..Len(messages) :
        \A k \in 1..n :
            HistoryTokens(Newest(messages, k)) <= SafeAvailableTokens(budget)})

\* C28: when a message overflows and at least one message is kept, and 10 or
\* more tokens remain after the kept messages, the result is the kept messages
\* with the oldest of them replaced by a summary: same role, content the prefix
\* and the original content cut to min(50, remaining) tokens.
C28_SummaryFromTen ==
    CompressDone =>
        LET messages == tm_call.messages
            n == KeptCount(messages, tm_call.budget)
            kept == Newest(messages, n)
            remaining == SafeAvailableTokens(tm_call.budget) - HistoryTokens(kept)
        IN  (n >= 1 /\ n < Len(messages) /\ remaining >= 10) =>
                /\ Len(tm_result.val) = n
                /\ Tail(tm_result.val) = Tail(kept)
                /\ tm_result.val[1].role = kept[1].role
                /\ tm_result.val[1].content =
                       SummaryPrefix \o
                       Decode(FirstTokens(Encode(kept[1].content),
                                          Min(Min(50, remaining),
                                              CountTokens(kept[1].content))))

\* C29: the messages compress_conversation returns, counted as "role: content",
\* sum to at most safe_available_tokens.
C29_FitsBudget ==
    CompressDone => HistoryTokens(tm_result.val) <= SafeAvailableTokens(tm_call.budget)

\* C30: a send_message or broadcast call in which a send failed returns, and
\* every call that waits for the manager's lock gets it and returns.
C30_SendFailureRecovers ==
    /\ \A t \in Tasks : cm_task[t].failed ~> cm_task[t].pc = "done"
    /\ \A t \in Tasks : cm_task[t].pc = "waiting" ~> cm_task[t].pc = "done"

====
